---- MODULE Spec2Model ----
(***************************************************************************)
(* Lifetime management of the HarfBuzz wrapper objects of harfbuzz.py:     *)
(* the per-class WeakValueDictionary registries (_instances, _ud_refs),    *)
(* the wrapping constructors (__new__), the finalizers (__del__) and the   *)
(* atexit hook.  The foreign library is represented by the calls made to   *)
(* it: every hb_<class>_destroy call is counted per class and handle, and  *)
(* every handle passed to a constructor carries one foreign reference.     *)
(***************************************************************************)
EXTENDS Integers, FiniteSets, Sequences, TLC

\* ---------------------------------------------------------------- bounds
NumHandles == 1      \* distinct non-null foreign addresses per class
MaxWrappers == 2     \* wrapper objects constructed in one run
MaxRefs == 2         \* strong references the application holds on a wrapper
MaxCalls == 2        \* constructor calls in one run
NumThreads == 2      \* host threads of the multi-threaded program

\* ---------------------------------------------------------------- values
None == 0                            \* Python None: a NULL c_void_p result, an absent dict entry
Handles == 1 .. NumHandles
Keys == {None} \cup Handles          \* what a c_void_p restype can deliver
Wrappers == 1 .. MaxWrappers         \* object identities, in order of construction
Threads == 1 .. NumThreads
Flags == {"None", "True", "False"}   \* the autoscale argument: None, True or False

hb == 1                              \* the CDLL object for libharfbuzz.so.0; the module never rebinds it

DelClasses == {"UnicodeFuncs", "Blob", "Buffer", "Face", "Font", "FontFuncs", "Set", "ShapePlan"}
Interned == {"Language", "SerializeFormat"}     \* _instances, no _ud_refs, no __del__
Classes == DelClasses \cup Interned
Registered == DelClasses \ {"Set"}   \* the classes that define _instances and _ud_refs
HasAutoscale == {"Face", "Font", "FontFuncs"}   \* __new__(celf, _hbobj, autoscale)

VARIABLES
    instances,      \* instances[c][k]: the live wrapper registered in c._instances under k, or None
    ud_refs,        \* ud_refs[c][k]: the live UserDataDict registered in c._ud_refs under k, or None
    wclass,         \* wclass[w]: the class of wrapper w ("" before it is constructed)
    hbobj,          \* hbobj[w]: the _hbobj slot of w
    regkey,         \* regkey[w]: the _hbobj argument w was constructed with
    autoscale,      \* autoscale[w]: the autoscale slot of w
    user_data,      \* user_data[w]: the dict in the _user_data slot, named by the wrapper that created it
    alive,          \* alive[w]: "unborn", "live" or "dead" (deallocated)
    refs,           \* refs[w]: strong references held on w
    del_classes,    \* the classes that still have a __del__ attribute
    incoming,       \* incoming[c][k]: foreign references handed to the constructor of c for k
    destroyed,      \* destroyed[c][k]: hb_<c>_destroy calls made with argument k
    own_destroys,   \* own_destroys[w]: destroy calls made by the finalizer of w
    del_runs,       \* del_runs[w]: how often the finalizer of w has run
    ud_app,         \* ud_app[d]: the application holds a reference to dict d
    ud_items,       \* ud_items[d]: number of entries of dict d
    ret,            \* the wrapper returned by the constructor call just made, or None
    raised,         \* the exception raised by the constructor call just made, or "none"
    ncalls,         \* constructor calls made so far
    pc,             \* pc[t]: where thread t is: "idle", "new" (inside __new__) or "del" (inside __del__)
    frame,          \* frame[t]: the arguments and the local variable self of the call thread t is in
    callbacks,      \* callbacks[w]: the adapter in the callback slot of w (set by its set-callback method), or "none"
    op,             \* the routine of the binding called last ("" before the first call)
    args,           \* the arguments it was called with
    fcalls,         \* the foreign routines it called, in order
    exc,            \* the exception it raised, or "none"
    result,         \* the value it returned
    slots,          \* the attributes its receiver and its arguments carry that such routines assign
    immutable,      \* immutable[k]: what hb_<class>_is_immutable reports for the foreign object k
    registered,     \* registered[k]: the wrapper whose callback slot held the function pointers the foreign object k was given last, or None
    retained        \* retained[k]: another foreign object holds a reference to the foreign object k

wrapperVars == <<wclass, hbobj, regkey, autoscale, user_data, alive, refs>>
registryVars == <<instances, ud_refs>>
foreignVars == <<incoming, destroyed, own_destroys, del_runs, ncalls>>
udVars == <<ud_app, ud_items>>
vars == <<instances, ud_refs, wclass, hbobj, regkey, autoscale, user_data, alive, refs,
          del_classes, incoming, destroyed, own_destroys, del_runs, ud_app, ud_items,
          ret, raised, ncalls, pc, frame,
          callbacks, op, args, fcalls, exc, result, slots, immutable, registered, retained>>
threadVars == <<pc, frame>>
callVars == <<op, args, fcalls, exc, result>>
apiVars == <<callbacks, op, args, fcalls, exc, result, slots, immutable, registered, retained>>
lifetimeVars == <<instances, ud_refs, wclass, hbobj, regkey, autoscale, user_data, alive, refs,
                  del_classes, incoming, destroyed, own_destroys, del_runs, ud_app, ud_items,
                  ret, raised, ncalls, pc, frame>>

\* ---------------------------------------------------------------- helpers
\* The classes instantiated so far.  Each class has its own _instances and _ud_refs
\* dictionaries and its own hb_<class>_destroy routine, and no constructor or finalizer
\* reads or writes those of another class (only _atexit acts on all classes, on each
\* independently), so a run instantiates the wrappers of one class, any of the eight.
UsedClasses == {c \in Classes : \E k \in Keys : incoming[c][k] > 0}
WithinBounds(c) == /\ ncalls < MaxCalls
                   /\ UsedClasses \subseteq {c}

Live(w) == alive[w] = "live"
Unborn == {w \in Wrappers : alive[w] = "unborn"}
Min(S) == CHOOSE x \in S : \A y \in S : x <= y

\* the autoscale arguments a constructor of class c can be given
AutoArgs(c) == IF c \in HasAutoscale THEN Flags ELSE {"None"}

\* a UserDataDict stays alive while a live wrapper's slot or the application refers to it
DictAlive(d, al, app) == app[d] \/ \E w \in Wrappers : al[w] = "live" /\ user_data[w] = d

NoFrame == [cls |-> "", key |-> None, auto |-> "None", self |-> None]

\* a Python value outside the wrapper classes: its type and, for a number, its value
PyNone == [type |-> "NoneType", val |-> 0]
PyInt(n) == [type |-> "int", val |-> n]

\* the attributes as the constructors leave them: Buffer.__new__ sets autoscale False and
\* _unicode_funcs None; a Font has no _font_funcs before set_funcs
InitialSlots == [unicode_funcs |-> "None", buf_autoscale |-> "False", font_funcs |-> "None"]

Init ==
    /\ instances = [c \in Registered \cup Interned |-> [k \in Keys |-> None]]
    /\ ud_refs = [c \in Registered |-> [k \in Keys |-> None]]
    /\ wclass = [w \in Wrappers |-> ""]
    /\ hbobj = [w \in Wrappers |-> None]
    /\ regkey = [w \in Wrappers |-> None]
    /\ autoscale = [w \in Wrappers |-> "None"]
    /\ user_data = [w \in Wrappers |-> None]
    /\ alive = [w \in Wrappers |-> "unborn"]
    /\ refs = [w \in Wrappers |-> 0]
    /\ del_classes = DelClasses
    /\ incoming = [c \in Classes |-> [k \in Keys |-> 0]]
    /\ destroyed = [c \in Classes |-> [k \in Keys |-> 0]]
    /\ own_destroys = [w \in Wrappers |-> 0]
    /\ del_runs = [w \in Wrappers |-> 0]
    /\ ud_app = [w \in Wrappers |-> FALSE]
    /\ ud_items = [w \in Wrappers |-> 0]
    /\ ret = None
    /\ raised = "none"
    /\ ncalls = 0
    /\ pc = [t \in Threads |-> "idle"]
    /\ frame = [t \in Threads |-> NoFrame]
    /\ callbacks = [w \in Wrappers |-> "none"]
    /\ op = ""
    /\ args = <<>>
    /\ fcalls = <<>>
    /\ exc = "none"
    /\ result = PyNone
    /\ slots = InitialSlots
    /\ immutable = [k \in Handles |-> FALSE]
    /\ registered = [k \in Handles |-> None]
    /\ retained = [k \in Handles |-> FALSE]


\* ---------------------------------------------------------------- the constructors
\* a lookup that never finds the registered wrapper
LookupMiss(c, k) == None

\* self = celf._instances.get(_hbobj): the registered wrapper, None once its referent is gone
Lookup(c, k) == instances[c][k]

\* one call hb_<c>_destroy(h), as the foreign layer counts it
Destroy(c, h) == [destroyed EXCEPT ![c][h] = @ + 1]

\* the else branch of __new__: hb.hb_<c>_destroy(self._hbobj), "lose extra reference created by caller"
RedundantRelease(c, self) == Destroy(c, hbobj[self])

\* assert autoscale != None, "missing autoscale flag" (a wrapper is being constructed)
MissingAutoscale(c, a) == c \in HasAutoscale /\ a = "None"

\* a constructor that accepts any autoscale argument for a live wrapper
InconsistentAutoscaleAccepted(c, a, self) == FALSE

\* assert autoscale == None or autoscale == self.autoscale, "inconsistent autoscale settings"
InconsistentAutoscale(c, a, self) == c \in HasAutoscale /\ ~(a = "None" \/ a = autoscale[self])

\* the value the autoscale slot is initialised with
InitialAutoscale(c, a) == IF c \in HasAutoscale THEN a
                          ELSE IF c = "Buffer" THEN "False"
                          ELSE "None"

\* the body of <c>.__new__(celf, _hbobj = k, autoscale = a) once the registry lookup has
\* delivered self; r is the reference count table including the caller's reference to self
New(c, k, a, self, r) ==
    IF self = None
    THEN IF MissingAutoscale(c, a)
         THEN /\ raised' = "AssertionError"
              /\ ret' = None
              /\ refs' = r
              /\ UNCHANGED <<registryVars, wclass, hbobj, regkey, autoscale, user_data, alive,
                             destroyed>>
         ELSE LET w == Min(Unborn)
                  ud == ud_refs[c][k]
                  d == IF ud = None THEN w ELSE ud
              IN /\ Unborn # {}
                 /\ wclass' = [wclass EXCEPT ![w] = c]
                 /\ hbobj' = [hbobj EXCEPT ![w] = k]
                 /\ regkey' = [regkey EXCEPT ![w] = k]
                 /\ autoscale' = [autoscale EXCEPT ![w] = InitialAutoscale(c, a)]
                 /\ user_data' = [user_data EXCEPT ![w] = d]
                 /\ ud_refs' = [ud_refs EXCEPT ![c][k] = d]
                 /\ instances' = [instances EXCEPT ![c][k] = w]
                 /\ alive' = [alive EXCEPT ![w] = "live"]
                 /\ refs' = [r EXCEPT ![w] = 1]
                 /\ ret' = w
                 /\ raised' = "none"
                 /\ UNCHANGED destroyed
    ELSE IF InconsistentAutoscale(c, a, self)
         THEN /\ raised' = "AssertionError"
              /\ ret' = None
              /\ refs' = [r EXCEPT ![self] = @ - 1]
              /\ UNCHANGED <<registryVars, wclass, hbobj, regkey, autoscale, user_data, alive,
                             destroyed>>
         ELSE /\ destroyed' = RedundantRelease(c, self)
              /\ ret' = self
              /\ raised' = "none"
              /\ refs' = r
              /\ UNCHANGED <<registryVars, wclass, hbobj, regkey, autoscale, user_data, alive>>

\* a call <c>(k, a) of a registry-backed class, as made by create, get_empty, the property
\* getters and the callback adapters with the handle a foreign call has just returned
Construct(c, k, a) ==
    /\ c \in Registered
    /\ WithinBounds(c)
    /\ LET self == Lookup(c, k)
       IN /\ self # None => refs[self] < MaxRefs
          /\ New(c, k, a, self, IF self = None THEN refs ELSE [refs EXCEPT ![self] = @ + 1])
    /\ incoming' = [incoming EXCEPT ![c][k] = @ + 1]
    /\ ncalls' = ncalls + 1
    /\ UNCHANGED <<del_classes, own_destroys, del_runs, udVars, threadVars>>

\* such a call made by the application on its own
Wrap(c, k, a) ==
    /\ Construct(c, k, a)
    /\ UNCHANGED apiVars

\* a constructor that gives back the caller's reference when it finds a live wrapper
ReleasedWhenFound(c, self) == Destroy(c, hbobj[self])

\* Language.__new__ and SerializeFormat.__new__ have no else branch: nothing is released
NothingReleased(c, self) == destroyed

\* Language.__new__(celf, _hbobj) and SerializeFormat.__new__(celf, _tag): the registry
\* lookup and, on a miss, a new wrapper; no else branch, no autoscale, no user data
Intern(c, k) ==
    /\ c \in Interned
    /\ WithinBounds(c)
    /\ LET self == Lookup(c, k)
           w == Min(Unborn)
       IN IF self = None
          THEN /\ Unborn # {}
               /\ wclass' = [wclass EXCEPT ![w] = c]
               /\ hbobj' = [hbobj EXCEPT ![w] = k]
               /\ regkey' = [regkey EXCEPT ![w] = k]
               /\ instances' = [instances EXCEPT ![c][k] = w]
               /\ alive' = [alive EXCEPT ![w] = "live"]
               /\ refs' = [refs EXCEPT ![w] = 1]
               /\ ret' = w
               /\ UNCHANGED destroyed
          ELSE /\ refs[self] < MaxRefs
               /\ refs' = [refs EXCEPT ![self] = @ + 1]
               /\ ret' = self
               /\ destroyed' = NothingReleased(c, self)
               /\ UNCHANGED <<instances, wclass, hbobj, regkey, alive>>
    /\ raised' = "none"
    /\ incoming' = [incoming EXCEPT ![c][k] = @ + 1]
    /\ ncalls' = ncalls + 1
    /\ UNCHANGED <<ud_refs, autoscale, user_data, del_classes, own_destroys, del_runs,
                   udVars, threadVars>>
    /\ UNCHANGED apiVars

\* Set.__init__(self, _hbobj): Set(hb.hb_set_create()) in to_hb, Set(None) in NULL
SetConstruct(k) ==
    /\ WithinBounds("Set")
    /\ Unborn # {}
    /\ k # None => incoming["Set"][k] = destroyed["Set"][k]   \* hb_set_create returns a new object
    /\ LET w == Min(Unborn)
       IN /\ wclass' = [wclass EXCEPT ![w] = "Set"]
          /\ hbobj' = [hbobj EXCEPT ![w] = k]
          /\ regkey' = [regkey EXCEPT ![w] = k]
          /\ alive' = [alive EXCEPT ![w] = "live"]
          /\ refs' = [refs EXCEPT ![w] = 1]
          /\ ret' = w
    /\ raised' = "none"
    /\ incoming' = [incoming EXCEPT !["Set"][k] = @ + 1]
    /\ ncalls' = ncalls + 1
    /\ UNCHANGED <<registryVars, autoscale, user_data, del_classes, destroyed, own_destroys,
                   del_runs, udVars, threadVars>>

\* such a call on its own
SetInit(k) ==
    /\ SetConstruct(k)
    /\ UNCHANGED apiVars

\* ---------------------------------------------------------------- finalization
\* a finalizer that never releases
DelGuardNever(w) == FALSE

\* if hb != None and self._hbobj != None
DelGuard(w) == hb # None /\ hbobj[w] # None

\* a finalizer that leaves the handle in the slot
DelResetMissing(w) == hbobj

\* self._hbobj = None
DelReset(w) == [hbobj EXCEPT ![w] = None]

\* a registry whose entries outlive their referent
WeakrefKept(w) == instances

\* a registry that holds its wrappers strongly
RegistryRefsStrong(w) ==
    IF \E c \in Registered, k \in Keys : instances[c][k] = w THEN 1 ELSE 0

\* _instances = WeakValueDictionary(): an entry is no strong reference to the wrapper
RegistryRefs(w) == 0

\* the KeyedRef callback of WeakValueDictionary: the entry of a dead referent is removed
WeakrefCleared(w) ==
    IF wclass[w] \in Registered \cup Interned /\ instances[wclass[w]][regkey[w]] = w
    THEN [instances EXCEPT ![wclass[w]][regkey[w]] = None]
    ELSE instances

\* the same for _ud_refs, once dict d has neither a live wrapper nor the application holding it
UdCleared(c, k, d, al, app) ==
    IF c \in Registered /\ d # None /\ ud_refs[c][k] = d /\ ~DictAlive(d, al, app)
    THEN [ud_refs EXCEPT ![c][k] = None]
    ELSE ud_refs

\* deallocation of w when its last reference goes: __del__ if the class still has one,
\* then the weak references to w are cleared
Dealloc(w) ==
    LET c == wclass[w]
        runs == c \in del_classes
        rel == runs /\ DelGuard(w)
        al == [alive EXCEPT ![w] = "dead"]
    IN /\ del_runs' = IF runs THEN [del_runs EXCEPT ![w] = @ + 1] ELSE del_runs
       /\ destroyed' = IF rel THEN Destroy(c, hbobj[w]) ELSE destroyed
       /\ own_destroys' = IF rel THEN [own_destroys EXCEPT ![w] = @ + 1] ELSE own_destroys
       /\ hbobj' = IF rel THEN DelReset(w) ELSE hbobj
       /\ alive' = al
       /\ refs' = [refs EXCEPT ![w] = 0]
       /\ instances' = WeakrefCleared(w)
       /\ ud_refs' = UdCleared(c, regkey[w], user_data[w], al, ud_app)

\* the foreign object k of class c is referenced: by the references handed to wrappers and
\* not yet given back with hb_<c>_destroy, or by another foreign object
Referenced(c, k, des, held) == incoming[c][k] - des[c][k] + (IF held[k] THEN 1 ELSE 0) > 0

\* a foreign object that loses its last reference is freed, and holds no pointers any more
Forgotten(c, des, held) ==
    [k \in Handles |-> IF Referenced(c, k, des, held) THEN registered[k] ELSE None]

\* the application gives up one reference to w
Drop(w) ==
    /\ Live(w)
    /\ refs[w] > 0
    /\ IF refs[w] + RegistryRefs(w) > 1
       THEN /\ refs' = [refs EXCEPT ![w] = @ - 1]
            /\ UNCHANGED <<registryVars, hbobj, alive, destroyed, own_destroys, del_runs>>
       ELSE Dealloc(w)
    /\ ret' = None
    /\ raised' = "none"
    /\ UNCHANGED <<wclass, regkey, autoscale, user_data, del_classes, incoming, ncalls, udVars,
                   threadVars>>
    /\ registered' = Forgotten(wclass[w], destroyed', retained)
    /\ UNCHANGED <<callbacks, op, args, fcalls, exc, result, slots, immutable, retained>>

\* ---------------------------------------------------------------- shutdown
\* a hook that forgets the one class without a registry
AtexitClassesNoSet == {"UnicodeFuncs", "Blob", "Buffer", "Face", "Font", "FontFuncs", "ShapePlan"}

\* for cls in UnicodeFuncs, Blob, Buffer, Face, Font, FontFuncs, Set, ShapePlan
AtexitClasses == {"UnicodeFuncs", "Blob", "Buffer", "Face", "Font", "FontFuncs", "Set", "ShapePlan"}

\* _atexit(): delattr(cls, "__del__") for each of them; registered once with atexit
AtExit ==
    /\ del_classes = DelClasses
    /\ del_classes' = del_classes \ AtexitClasses
    /\ ret' = None
    /\ raised' = "none"
    /\ UNCHANGED <<registryVars, wrapperVars, foreignVars, udVars, threadVars>>
    /\ UNCHANGED apiVars

\* ---------------------------------------------------------------- user data
\* the user_data property: the application keeps the dict it returns
UserDataGet(w) ==
    /\ Live(w) /\ refs[w] > 0
    /\ user_data[w] # None
    /\ ~ud_app[user_data[w]]
    /\ ud_app' = [ud_app EXCEPT ![user_data[w]] = TRUE]
    /\ ret' = None
    /\ raised' = "none"
    /\ UNCHANGED <<registryVars, wrapperVars, del_classes, foreignVars, ud_items, threadVars>>
    /\ UNCHANGED apiVars

\* the application stores an entry in a dict it holds
UserDataStore(d) ==
    /\ ud_app[d]
    /\ ud_items[d] = 0
    /\ ud_items' = [ud_items EXCEPT ![d] = 1]
    /\ ret' = None
    /\ raised' = "none"
    /\ UNCHANGED <<registryVars, wrapperVars, del_classes, foreignVars, ud_app, threadVars>>
    /\ UNCHANGED apiVars

\* the application gives up its reference to dict d
UserDataDrop(d) ==
    /\ ud_app[d]
    /\ ud_app' = [ud_app EXCEPT ![d] = FALSE]
    /\ ud_refs' = UdCleared(wclass[d], regkey[d], d, alive, [ud_app EXCEPT ![d] = FALSE])
    /\ ret' = None
    /\ raised' = "none"
    /\ UNCHANGED <<instances, wrapperVars, del_classes, foreignVars, ud_items, threadVars>>
    /\ UNCHANGED apiVars

\* ---------------------------------------------------------------- the sequential program
Next ==
    \/ \E c \in Registered, k \in Keys : \E a \in AutoArgs(c) : Wrap(c, k, a)
    \/ \E k \in Keys : SetInit(k)
    \/ \E w \in Wrappers : Drop(w)
    \/ AtExit

Spec == Init /\ [][Next]_vars

\* ---------------------------------------------------------------- the program with an application using user_data
NextUD ==
    \/ \E c \in Registered, k \in Keys : \E a \in AutoArgs(c) : Wrap(c, k, a)
    \/ \E w \in Wrappers : Drop(w)
    \/ \E w \in Wrappers : UserDataGet(w)
    \/ \E d \in Wrappers : UserDataStore(d)
    \/ \E d \in Wrappers : UserDataDrop(d)

SpecUD == Init /\ [][NextUD]_vars

\* the two classes whose wrappers are never freed
NextIntern ==
    \/ \E c \in Interned, k \in Keys : Intern(c, k)
    \/ \E w \in Wrappers : Drop(w)
    \/ AtExit

SpecIntern == Init /\ [][NextIntern]_vars

\* ---------------------------------------------------------------- the multi-threaded program
\* The interpreter may switch threads between the registry lookup of __new__ and the rest of
\* its body, and ctypes releases the interpreter lock for the duration of a foreign call, so
\* that other threads run while the hb_<c>_destroy call of a finalizer is in progress.

\* w is inside its finalizer: its weak references are not yet cleared
Finalizing(w) == \E t \in Threads : pc[t] = "del" /\ frame[t].self = w

\* the autoscale arguments the threads pass
ThreadArgs(c) == IF c \in HasAutoscale THEN {"None", "True"} ELSE {"None"}

\* thread t enters <c>(k, a) and executes self = celf._instances.get(_hbobj)
ThreadLookup(t, c, k, a) ==
    /\ pc[t] = "idle"
    /\ c \in Registered
    /\ WithinBounds(c)
    /\ LET self == Lookup(c, k)
       IN /\ self # None => refs[self] < MaxRefs
          /\ refs' = IF self = None THEN refs ELSE [refs EXCEPT ![self] = @ + 1]
          /\ frame' = [frame EXCEPT ![t] = [cls |-> c, key |-> k, auto |-> a, self |-> self]]
    /\ pc' = [pc EXCEPT ![t] = "new"]
    /\ incoming' = [incoming EXCEPT ![c][k] = @ + 1]
    /\ ncalls' = ncalls + 1
    /\ ret' = None
    /\ raised' = "none"
    /\ UNCHANGED <<registryVars, wclass, hbobj, regkey, autoscale, user_data, alive, del_classes,
                   destroyed, own_destroys, del_runs, udVars>>
    /\ UNCHANGED apiVars

\* thread t executes the rest of __new__ with the self it has looked up
ThreadNew(t) ==
    /\ pc[t] = "new"
    /\ New(frame[t].cls, frame[t].key, frame[t].auto, frame[t].self, refs)
    /\ pc' = [pc EXCEPT ![t] = "idle"]
    /\ frame' = [frame EXCEPT ![t] = NoFrame]
    /\ UNCHANGED <<del_classes, incoming, own_destroys, del_runs, ncalls, udVars>>
    /\ UNCHANGED apiVars

\* thread t gives up a reference to w; with the last one gone (and w not already inside its
\* finalizer) w is deallocated: __del__ runs up to and into its hb_<c>_destroy call
ThreadDrop(t, w) ==
    /\ pc[t] = "idle"
    /\ Live(w)
    /\ refs[w] > 0
    /\ IF refs[w] + RegistryRefs(w) > 1 \/ Finalizing(w)
       THEN /\ refs' = [refs EXCEPT ![w] = @ - 1]
            /\ UNCHANGED <<registryVars, hbobj, alive, destroyed, own_destroys, del_runs,
                           threadVars>>
       ELSE IF wclass[w] \in del_classes /\ DelGuard(w)
            THEN /\ refs' = [refs EXCEPT ![w] = 0]
                 /\ destroyed' = Destroy(wclass[w], hbobj[w])
                 /\ own_destroys' = [own_destroys EXCEPT ![w] = @ + 1]
                 /\ del_runs' = [del_runs EXCEPT ![w] = @ + 1]
                 /\ pc' = [pc EXCEPT ![t] = "del"]
                 /\ frame' = [frame EXCEPT ![t] = [NoFrame EXCEPT !.self = w]]
                 /\ UNCHANGED <<registryVars, hbobj, alive>>
            ELSE /\ Dealloc(w)
                 /\ UNCHANGED threadVars
    /\ ret' = None
    /\ raised' = "none"
    /\ UNCHANGED <<wclass, regkey, autoscale, user_data, del_classes, incoming, ncalls, udVars>>
    /\ UNCHANGED apiVars

\* the destroy call of the finalizer thread t is in returns: self._hbobj = None, __del__
\* returns, and unless w has been referenced again meanwhile its weak references are cleared
ThreadDelReturn(t) ==
    /\ pc[t] = "del"
    /\ LET w == frame[t].self
           al == [alive EXCEPT ![w] = "dead"]
       IN /\ hbobj' = DelReset(w)
          /\ IF refs[w] > 0
             THEN UNCHANGED <<registryVars, alive>>
             ELSE /\ alive' = al
                  /\ instances' = WeakrefCleared(w)
                  /\ ud_refs' = UdCleared(wclass[w], regkey[w], user_data[w], al, ud_app)
    /\ pc' = [pc EXCEPT ![t] = "idle"]
    /\ frame' = [frame EXCEPT ![t] = NoFrame]
    /\ ret' = None
    /\ raised' = "none"
    /\ UNCHANGED <<wclass, regkey, autoscale, user_data, refs, del_classes, foreignVars, udVars>>
    /\ UNCHANGED apiVars

NextMT ==
    \/ \E t \in Threads, c \in Registered, k \in Keys : \E a \in ThreadArgs(c) : ThreadLookup(t, c, k, a)
    \/ \E t \in Threads : ThreadNew(t)
    \/ \E t \in Threads, w \in Wrappers : ThreadDrop(t, w)
    \/ \E t \in Threads : ThreadDelReturn(t)
    \/ AtExit

SpecMT == Init /\ [][NextMT]_vars

\* ---------------------------------------------------------------- numbers
\* A Python int has no width, so a non-negative one is written as its binary digits, least
\* significant first and without leading zeros; << and | and >> and & work on the digits.
RECURSIVE Bits(_)
Bits(n) == IF n = 0 THEN <<>> ELSE <<n % 2>> \o Bits(n \div 2)

RECURSIVE Val(_)
Val(b) == IF b = <<>> THEN 0 ELSE b[1] + 2 * Val(Tail(b))

RECURSIVE Strip(_)
Strip(b) == IF b = <<>> \/ b[Len(b)] = 1 THEN b ELSE Strip(SubSeq(b, 1, Len(b) - 1))

BitAt(b, i) == IF i <= Len(b) THEN b[i] ELSE 0

\* x << k
Shl(b, k) == IF b = <<>> THEN <<>> ELSE [i \in 1 .. k |-> 0] \o b

\* x >> k
Shr(b, k) == IF Len(b) <= k THEN <<>> ELSE SubSeq(b, k + 1, Len(b))

\* x | y
BitOr(a, b) ==
    Strip([i \in 1 .. (IF Len(a) > Len(b) THEN Len(a) ELSE Len(b)) |->
              IF BitAt(a, i) = 1 \/ BitAt(b, i) = 1 THEN 1 ELSE 0])

\* x & y
BitAnd(a, b) ==
    Strip([i \in 1 .. (IF Len(a) < Len(b) THEN Len(a) ELSE Len(b)) |-> a[i] * b[i]])

\* A Python float or int as the exact fraction num/den in lowest terms (den = 1 for an
\* int).  Division and multiplication by 64 are exact in binary floating point for every
\* value of 32 bits, and round() of a float rounds half to even.
RECURSIVE Gcd(_, _)
Gcd(a, b) == IF b = 0 THEN a ELSE Gcd(b, a % b)

PyNum(n) == [num |-> n, den |-> 1]

\* x / m
PyDiv(x, m) ==
    LET g == Gcd(m, x.num % m)
    IN [num |-> x.num \div g, den |-> x.den * (m \div g)]

\* x * m
PyMul(x, m) ==
    LET g == Gcd(m, x.den % m)
    IN [num |-> x.num * (m \div g), den |-> x.den \div g]

\* round(x)
PyRound(x) ==
    LET floor == x.num \div x.den
        twice == 2 * (x.num % x.den)
    IN PyNum(IF twice < x.den THEN floor
             ELSE IF twice > x.den THEN floor + 1
             ELSE IF floor % 2 = 0 THEN floor ELSE floor + 1)

\* ---------------------------------------------------------------- HARFBUZZ.TAG, UNTAG and the position scale
\* a TAG that takes c4 for the most significant byte
TAGReversed(c) ==
    BitOr(BitOr(BitOr(Shl(Bits(c[4]), 24), Shl(Bits(c[3]), 16)), Shl(Bits(c[2]), 8)), Bits(c[1]))

\* c1 << 24 | c2 << 16 | c3 << 8 | c4
TAGPack(c) ==
    BitOr(BitOr(BitOr(Shl(Bits(c[1]), 24), Shl(Bits(c[2]), 16)), Shl(Bits(c[3]), 8)), Bits(c[4]))

\* TAG(*a): four byte values, or one bytes value that is unpacked into four
TAG(a) ==
    IF Len(a) = 4 THEN [exc |-> "none", val |-> TAGPack(a)]
    ELSE IF Len(a) = 1
         THEN IF Len(a[1]) = 4 THEN [exc |-> "none", val |-> TAGPack(a[1])]
              ELSE [exc |-> "ValueError", val |-> <<>>]    \* c1, c2, c3, c4 = tuple(args[0])
         ELSE [exc |-> "TypeError", val |-> <<>>]          \* "wrong nr of TAG args"

\* UNTAG(tag): (tag >> 24 & 255, tag >> 16 & 255, tag >> 8 & 255, tag & 255); printable
\* turns the tuple into a bytes value of the same four numbers
UNTAG(tag) ==
    <<Val(BitAnd(Shr(tag, 24), Bits(255))), Val(BitAnd(Shr(tag, 16), Bits(255))),
      Val(BitAnd(Shr(tag, 8), Bits(255))), Val(BitAnd(tag, Bits(255)))>>

\* a to_position_t with half the scale
to_position_t_half(x) == PyRound(PyMul(x, 32))

\* to_position_t = lambda x : round(x * 64)
to_position_t(x) == PyRound(PyMul(x, 64))

\* from_position_t = lambda x : x / 64
from_position_t(x) == PyDiv(x, 64)

\* The struct classes of def_struct_class, on the example of a struct with two fields that
\* have the position conversions in conv (x_advance and y_advance of glyph_position_t) and
\* one that has none (var).  An attribute of the instance that is not set reads as None.
Scaled == {"x_advance", "y_advance"}

\* from_hb, one field: getattr(r, name) of a ctypes struct is never None; the conversion is
\* dropped when autoscale is false
from_hb_field(n, a) == IF a = "True" THEN from_position_t(n) ELSE n

from_hb(r, a) ==
    IF a = "None" THEN [exc |-> "TypeError", val |-> r]     \* "missing autoscale arg"
    ELSE [exc |-> "none",
          val |-> [x_advance |-> from_hb_field(r.x_advance, a),
                   y_advance |-> from_hb_field(r.y_advance, a),
                   var |-> r.var]]

\* to_hb, one field: a field of the new ctypes struct stays 0 when the attribute is None;
\* round replaces to_position_t when autoscale is false
to_hb_field(x, a) ==
    IF x = PyNone THEN PyNum(0)
    ELSE IF a = "True" THEN to_position_t(x) ELSE PyRound(x)

\* a to_hb that wants the autoscale argument whether or not a field needs it
to_hb_strict(s, a) ==
    IF a = "None" THEN [exc |-> "TypeError", val |-> s]
    ELSE [exc |-> "none",
          val |-> [x_advance |-> to_hb_field(s.x_advance, a),
                   y_advance |-> to_hb_field(s.y_advance, a),
                   var |-> s.var]]

to_hb(s, a) ==
    IF a = "None" /\ (s.x_advance # PyNone \/ s.y_advance # PyNone)
    THEN [exc |-> "TypeError", val |-> s]                   \* "missing autoscale arg"
    ELSE [exc |-> "none",
          val |-> [x_advance |-> to_hb_field(s.x_advance, a),
                   y_advance |-> to_hb_field(s.y_advance, a),
                   var |-> s.var]]

\* the inputs: byte values, integers of the signed 32-bit position range, host numbers
ByteSamples == {0, 1, 127, 128, 255}
Bytes4 == {<<c1, c2, c3, c4>> : c1 \in ByteSamples, c2 \in ByteSamples,
                                c3 \in ByteSamples, c4 \in ByteSamples}
PositionSamples == {-2147483647 - 1, -2147483647, -65, -64, -63, -33, -32, -31, -1,
                    0, 1, 31, 32, 33, 63, 64, 65, 2147483647}
HostNumbers == {from_position_t(PyNum(n)) : n \in PositionSamples}
                   \cup {PyNum(-2), PyNum(7), [num |-> 1, den |-> 128], [num |-> 3, den |-> 128],
                         [num |-> -1, den |-> 128], [num |-> 5, den |-> 2]}
VarSamples == {0, 7}
SecondPositions == {-65, 0, 2147483647}
Attributes == HostNumbers \cup {PyNone}
SecondAttributes == {PyNone, PyNum(7), [num |-> 5, den |-> 2], [num |-> -3, den |-> 128]}

\* the tag that has c[1] for its most significant byte, digit by digit
TagOf(c) ==
    Strip([i \in 1 .. 32 |-> BitAt(Bits(c[4 - ((i - 1) \div 8)]), ((i - 1) % 8) + 1)])

\* A call of one of these routines.  They are pure: nothing but the call record changes and
\* no call depends on an earlier one, so each behaviour makes one call, with any input.
Called(name, a, r, e) ==
    /\ op = ""
    /\ op' = name
    /\ args' = a
    /\ result' = r
    /\ exc' = e
    /\ fcalls' = <<>>
    /\ UNCHANGED <<lifetimeVars, callbacks, slots, immutable, registered, retained>>

\* HB.TAG(c1, c2, c3, c4)
CallTAG(c) == Called("TAG", c, TAG(c).val, TAG(c).exc)

\* HB.TAG(b) with one bytes value of n bytes
CallTAGBytes(c, n) == Called("TAGBytes", <<SubSeq(c \o c, 1, n)>>, TAG(<<SubSeq(c \o c, 1, n)>>).val,
                             TAG(<<SubSeq(c \o c, 1, n)>>).exc)

\* HB.TAG with n arguments, n not 1 or 4
CallTAGArity(c, n) == Called("TAGArity", SubSeq(c \o c, 1, n), TAG(SubSeq(c \o c, 1, n)).val,
                             TAG(SubSeq(c \o c, 1, n)).exc)

\* HB.UNTAG(t)
CallUNTAG(c) == Called("UNTAG", TagOf(c), UNTAG(TagOf(c)), "none")

\* HB.from_position_t(n) on what a position_t field or result delivers
CallFromPosition(n) == Called("from_position_t", PyNum(n), from_position_t(PyNum(n)), "none")

\* HB.to_position_t(x) on a host number
CallToPosition(x) == Called("to_position_t", x, to_position_t(x), "none")

\* <struct class>.from_hb(r, autoscale)
CallFromHb(n, m, v, a) ==
    LET r == [x_advance |-> PyNum(n), y_advance |-> PyNum(m), var |-> v]
    IN Called("from_hb", [r |-> r, autoscale |-> a], from_hb(r, a).val, from_hb(r, a).exc)

\* <struct instance>.to_hb(autoscale)
CallToHb(x, y, v, a) ==
    LET r == [x_advance |-> x, y_advance |-> y, var |-> v]
    IN Called("to_hb", [r |-> r, autoscale |-> a], to_hb(r, a).val, to_hb(r, a).exc)

NextFn ==
    \/ \E c \in Bytes4 : CallTAG(c)
    \/ \E c \in Bytes4, n \in {3, 4, 5} : CallTAGBytes(c, n)
    \/ \E c \in Bytes4, n \in {0, 2, 3, 5} : CallTAGArity(c, n)
    \/ \E c \in Bytes4 : CallUNTAG(c)
    \/ \E n \in PositionSamples : CallFromPosition(n)
    \/ \E x \in HostNumbers : CallToPosition(x)
    \/ \E n \in PositionSamples, m \in SecondPositions, v \in VarSamples, a \in Flags :
           CallFromHb(n, m, v, a)
    \/ \E x \in Attributes, y \in SecondAttributes, v \in VarSamples, a \in Flags :
           CallToHb(x, y, v, a)

SpecFn == Init /\ [][NextFn]_vars

\* ---------------------------------------------------------------- routines that check, call and report
MaxElts == 2         \* elements of a Python set handed to Set.to_hb

DIRECTION_INVALID == 0
TAG_NONE == 0
SCRIPT_INVALID == TAG_NONE
BUFFER_SERIALIZE_FORMAT_INVALID == TAG_NONE

\* one call of a foreign routine, with the value the C routine returned (0 for void)
FCall(name, r) == [name |-> name, ret |-> r]

\* the restype declared for the routine
Restype(name) ==
    CASE name = "hb_buffer_pre_allocate" -> "bool_t"
      [] name = "hb_buffer_allocation_successful" -> "bool_t"
      [] name = "hb_buffer_set_length" -> "None"
      [] name = "hb_set_allocation_successful" -> "bool_t"
      [] name = "hb_feature_from_string" -> "bool_t"
      [] name = "hb_language_from_string" -> "c_void_p"
      [] name = "hb_buffer_serialize_format_from_string" -> "tag_t"
      [] name = "hb_direction_from_string" -> "direction_t"
      [] name = "hb_script_from_string" -> "script_t"
      [] name = "hb_tag_from_string" -> "tag_t"
      [] name = "hb_shape_full" -> "bool_t"
      [] name = "hb_shape_plan_execute" -> "bool_t"
      [] OTHER -> "None"

\* what ctypes hands to Python for a C return value r: None for a routine declared with
\* restype None and for a NULL c_void_p, the number otherwise
PyResult(name, r) ==
    IF Restype(name) = "None" \/ (Restype(name) = "c_void_p" /\ r = 0) THEN PyNone ELSE PyInt(r)

\* the values an argument is given where a wrapper of class T is expected: None, a wrapper
\* of that class, a wrapper of another class
ArgKinds(T) == {"None", T, IF T = "Buffer" THEN "Font" ELSE "Buffer"}

\* isinstance(x, T)
IsInstance(x, T) == x = T

\* the call record of a routine: its name, the arguments followed, the foreign calls it
\* made, what it returned and what it raised
ReportedWith(name, a, f, r, e) ==
    /\ op' = name
    /\ args' = a
    /\ fcalls' = f
    /\ result' = r
    /\ exc' = e

\* ... of a routine none of whose arguments is followed
Reported(name, f, r, e) == ReportedWith(name, <<>>, f, r, e)

\* ... and that changes nothing else
ReportedOnly(name, f, r, e) ==
    /\ Reported(name, f, r, e)
    /\ UNCHANGED <<lifetimeVars, callbacks, slots, immutable, registered, retained>>

\* ---- Buffer
\* Buffer.language setter
BufferSetLanguage(language) ==
    IF language # "None" /\ ~IsInstance(language, "Language")
    THEN ReportedOnly("Buffer.language", <<>>, PyNone, "TypeError")
    ELSE ReportedOnly("Buffer.language", <<FCall("hb_buffer_set_language", 0)>>, PyNone, "none")

\* Buffer.unicode_funcs setter
BufferSetUnicodeFuncs(funcs) ==
    IF funcs # "None" /\ ~IsInstance(funcs, "UnicodeFuncs")
    THEN ReportedOnly("Buffer.unicode_funcs", <<>>, PyNone, "TypeError")
    ELSE /\ Reported("Buffer.unicode_funcs", <<FCall("hb_buffer_set_unicode_funcs", 0)>>, PyNone, "none")
         /\ slots' = [slots EXCEPT !.unicode_funcs = funcs]
         /\ UNCHANGED <<lifetimeVars, callbacks, immutable, registered, retained>>

\* Buffer.pre_allocate(size); r is what hb_buffer_pre_allocate returns
BufferPreAllocate(r) ==
    ReportedOnly("Buffer.pre_allocate", <<FCall("hb_buffer_pre_allocate", r)>>, PyNone,
                 IF PyResult("hb_buffer_pre_allocate", r) = PyInt(0) THEN "RuntimeError" ELSE "none")

\* Buffer.check_alloc(); ok is what hb_buffer_allocation_successful returns
check_alloc(ok) ==
    IF PyResult("hb_buffer_allocation_successful", ok) = PyInt(0) THEN "RuntimeError" ELSE "none"

\* Buffer.add(codepoint, cluster)
BufferAdd(ok) ==
    ReportedOnly("Buffer.add",
                 <<FCall("hb_buffer_add", 0), FCall("hb_buffer_allocation_successful", ok)>>,
                 PyNone, check_alloc(ok))

\* Buffer.add_codepoints(text, text_length, item_offset, item_length)
BufferAddCodepoints(ok) ==
    ReportedOnly("Buffer.add_codepoints",
                 <<FCall("hb_buffer_add_codepoints", 0), FCall("hb_buffer_allocation_successful", ok)>>,
                 PyNone, check_alloc(ok))

\* Buffer.length setter; r is what hb_buffer_set_length returns
BufferSetLength(r) ==
    ReportedOnly("Buffer.length", <<FCall("hb_buffer_set_length", r)>>, PyNone,
                 IF PyResult("hb_buffer_set_length", r) = PyInt(0) THEN "RuntimeError" ELSE "none")

\* ---- the creating routines: a type check, the foreign create call, the constructor
\* (the _arr and _face attributes they give the new wrapper are not followed)
\* the destroy call the constructor adds when it finds a live wrapper
ConstructorCalls(c) == IF destroyed' # destroyed THEN <<FCall("hb_" \o c \o "_destroy", 0)>> ELSE <<>>

\* Face.create(blob, index, autoscale); k is what hb_face_create returns
FaceCreate(blob, k, a) ==
    IF ~IsInstance(blob, "Blob")
    THEN ReportedOnly("Face.create", <<>>, PyNone, "TypeError")
    ELSE /\ Construct("Face", k, a)
         /\ Reported("Face.create", <<FCall("hb_face_create", k)>> \o ConstructorCalls("face"),
                     [type |-> "Face", val |-> ret'], raised')
         /\ UNCHANGED <<callbacks, slots, immutable, registered, retained>>

\* Font.create(face); fa is face.autoscale and k is what hb_font_create returns
FontCreate(face, fa, k) ==
    IF ~IsInstance(face, "Face")
    THEN ReportedOnly("Font.create", <<>>, PyNone, "TypeError")
    ELSE /\ Construct("Font", k, fa)
         /\ Reported("Font.create", <<FCall("hb_font_create", k)>> \o ConstructorCalls("font"),
                     [type |-> "Font", val |-> ret'], raised')
         /\ UNCHANGED <<callbacks, slots, immutable, registered, retained>>

\* ShapePlan.create(face, props, user_features, shaper_list, cached)
ShapePlanCreate(face, props, k) ==
    IF ~IsInstance(face, "Face") \/ ~IsInstance(props, "SegmentProperties")
    THEN ReportedOnly("ShapePlan.create", <<>>, PyNone, "TypeError")
    ELSE /\ Construct("ShapePlan", k, "None")
         /\ Reported("ShapePlan.create",
                     <<FCall("hb_shape_plan_create", k)>> \o ConstructorCalls("shape_plan"),
                     [type |-> "ShapePlan", val |-> ret'], raised')
         /\ UNCHANGED <<callbacks, slots, immutable, registered, retained>>

\* ---- Font
\* Font.set_funcs(funcs, font_data, destroy)
FontSetFuncs(funcs) ==
    IF funcs # "None" /\ ~IsInstance(funcs, "FontFuncs")
    THEN ReportedOnly("Font.set_funcs", <<>>, PyNone, "TypeError")
    ELSE /\ Reported("Font.set_funcs", <<FCall("hb_font_set_funcs", 0)>>, PyNone, "none")
         /\ slots' = [slots EXCEPT !.font_funcs = funcs]
         /\ UNCHANGED <<lifetimeVars, callbacks, immutable, registered, retained>>

\* Font.parent setter
FontSetParent(new_parent) ==
    IF new_parent # "None" /\ ~IsInstance(new_parent, "Font")
    THEN ReportedOnly("Font.parent", <<>>, PyNone, "TypeError")
    ELSE ReportedOnly("Font.parent", <<FCall("hb_font_set_parent", 0)>>, PyNone, "none")

\* Buffer.reset()
BufferReset ==
    /\ Reported("Buffer.reset", <<FCall("hb_buffer_reset", 0)>>, PyNone, "none")
    /\ slots' = [slots EXCEPT !.buf_autoscale = "False"]
    /\ UNCHANGED <<lifetimeVars, callbacks, immutable, registered, retained>>

\* Buffer.clear_contents()
BufferClearContents ==
    /\ Reported("Buffer.clear_contents", <<FCall("hb_buffer_clear_contents", 0)>>, PyNone, "none")
    /\ slots' = [slots EXCEPT !.buf_autoscale = "False"]
    /\ UNCHANGED <<lifetimeVars, callbacks, immutable, registered, retained>>

\* ---- shaping: shape, shape_full and ShapePlan.execute have one form; fa is font.autoscale,
\* recorded as the argument of the call once font is known to be a Font
ShapingStale(name, routine, font, fa, buffer) ==
    IF ~IsInstance(font, "Font") \/ ~IsInstance(buffer, "Buffer")
    THEN ReportedOnly(name, <<>>, PyNone, "TypeError")
    ELSE /\ ReportedWith(name, <<fa>>, <<FCall(routine, 1)>>,
                         IF name = "shape" THEN PyNone ELSE PyInt(1), "none")
         /\ UNCHANGED <<lifetimeVars, callbacks, slots, immutable, registered, retained>>

Shaping(name, routine, font, fa, buffer) ==
    IF ~IsInstance(font, "Font") \/ ~IsInstance(buffer, "Buffer")
    THEN ReportedOnly(name, <<>>, PyNone, "TypeError")
    ELSE /\ ReportedWith(name, <<fa>>, <<FCall(routine, 1)>>,
                         IF name = "shape" THEN PyNone ELSE PyInt(1), "none")
         /\ slots' = [slots EXCEPT !.buf_autoscale = fa]      \* buffer.autoscale = font.autoscale
         /\ UNCHANGED <<lifetimeVars, callbacks, immutable, registered, retained>>

shape(font, fa, buffer) == Shaping("shape", "hb_shape", font, fa, buffer)

shape_full(font, fa, buffer) == Shaping("shape_full", "hb_shape_full", font, fa, buffer)

ShapePlanExecute(font, fa, buffer) ==
    Shaping("ShapePlan.execute", "hb_shape_plan_execute", font, fa, buffer)

\* ---- Set
\* the loop of Set.to_hb from element i on: fail is the insertion at which the allocation
\* of the foreign set fails (0: none does)
RECURSIVE SetFill(_, _, _)
SetFill(elts, i, fail) ==
    IF i > Len(elts) THEN [calls |-> <<>>, exc |-> "none"]
    ELSE IF elts[i] # "codepoint"            \* not isinstance(elt, int) or elt < 0
    THEN [calls |-> <<>>, exc |-> "TypeError"]
    ELSE LET ok == IF fail = i THEN 0 ELSE 1
             here == <<FCall("hb_set_add", 0), FCall("hb_set_allocation_successful", ok)>>
             rest == SetFill(elts, i + 1, fail)
         IN IF PyResult("hb_set_allocation_successful", ok) = PyInt(0)
            THEN [calls |-> here, exc |-> "RuntimeError"]
            ELSE [calls |-> here \o rest.calls, exc |-> rest.exc]

\* the foreign calls and the outcome of Set.to_hb(pyset) up to its return statement; a pyset
\* of None is given as no elements (the loop is skipped either way)
to_hb_calls(k, elts, fail) ==
    [calls |-> <<FCall("hb_set_create", k)>> \o SetFill(elts, 1, fail).calls,
     exc |-> SetFill(elts, 1, fail).exc]

\* Set.to_hb(pyset); k is what hb_set_create returns
SetToHb(k, elts, fail) ==
    LET r == to_hb_calls(k, elts, fail)
    IN IF r.exc # "none"
       THEN ReportedOnly("Set.to_hb", r.calls, PyNone, r.exc)
       ELSE /\ SetConstruct(k)
            /\ Reported("Set.to_hb", r.calls, [type |-> "Set", val |-> ret'], "none")
            /\ UNCHANGED <<callbacks, slots, immutable, registered, retained>>

\* ot_shape_glyphs_closure(font, buffer, features, glyphs): the Set made from glyphs is a
\* local variable, collected (and the foreign set destroyed) when the routine returns
ot_shape_glyphs_closure(font, fa, buffer, k, elts, fail) ==
    LET r == to_hb_calls(k, elts, fail)
        w == Min(Unborn)
    IN IF ~IsInstance(font, "Font") \/ ~IsInstance(buffer, "Buffer")
       THEN ReportedOnly("ot_shape_glyphs_closure", <<>>, PyNone, "TypeError")
       ELSE IF r.exc # "none"
       THEN /\ ReportedWith("ot_shape_glyphs_closure", <<fa>>, r.calls, PyNone, r.exc)
            /\ UNCHANGED <<lifetimeVars, callbacks, slots, immutable, registered, retained>>
       ELSE /\ WithinBounds("Set")
            /\ Unborn # {}
            /\ incoming["Set"][k] = destroyed["Set"][k]
            /\ ReportedWith("ot_shape_glyphs_closure", <<fa>>,
                        r.calls \o <<FCall("hb_ot_shape_glyphs_closure", 0),
                                     FCall("hb_set_next_range", 0)>>
                                \o (IF "Set" \in del_classes THEN <<FCall("hb_set_destroy", 0)>> ELSE <<>>),
                        [type |-> "set", val |-> 0], "none")
            /\ slots' = [slots EXCEPT !.buf_autoscale = fa]
            /\ wclass' = [wclass EXCEPT ![w] = "Set"]
            /\ regkey' = [regkey EXCEPT ![w] = k]
            /\ alive' = [alive EXCEPT ![w] = "dead"]
            /\ incoming' = [incoming EXCEPT !["Set"][k] = @ + 1]
            /\ ncalls' = ncalls + 1
            /\ del_runs' = IF "Set" \in del_classes THEN [del_runs EXCEPT ![w] = 1] ELSE del_runs
            /\ own_destroys' = IF "Set" \in del_classes THEN [own_destroys EXCEPT ![w] = 1]
                               ELSE own_destroys
            /\ destroyed' = IF "Set" \in del_classes THEN Destroy("Set", k) ELSE destroyed
            /\ hbobj' = IF "Set" \in del_classes THEN hbobj ELSE [hbobj EXCEPT ![w] = k]
            /\ ret' = None
            /\ raised' = "none"
            /\ UNCHANGED <<registryVars, autoscale, user_data, refs, del_classes, udVars,
                           threadVars, callbacks, immutable, registered, retained>>

\* ---- conversions from strings; r is what the foreign routine returns
\* Language.from_string(s)
LanguageFromString(r) ==
    IF PyResult("hb_language_from_string", r) = PyNone
    THEN ReportedOnly("Language.from_string", <<FCall("hb_language_from_string", r)>>, PyNone,
                      "ValueError")
    ELSE ReportedOnly("Language.from_string", <<FCall("hb_language_from_string", r)>>,
                      [type |-> "Language", val |-> r], "none")

\* Feature.from_string(s)
FeatureFromString(r) ==
    IF PyResult("hb_feature_from_string", r) = PyInt(0)
    THEN ReportedOnly("Feature.from_string", <<FCall("hb_feature_from_string", r)>>, PyNone,
                      "ValueError")
    ELSE ReportedOnly("Feature.from_string", <<FCall("hb_feature_from_string", r)>>,
                      [type |-> "Feature", val |-> r], "none")

\* SerializeFormat.from_string(s): celf(hb.hb_buffer_serialize_format_from_string(sb, len(sb)))
SerializeFormatFromString(r) ==
    ReportedOnly("SerializeFormat.from_string",
                 <<FCall("hb_buffer_serialize_format_from_string", r)>>,
                 [type |-> "SerializeFormat",
                  val |-> PyResult("hb_buffer_serialize_format_from_string", r).val], "none")

direction_from_string(r) ==
    ReportedOnly("direction_from_string", <<FCall("hb_direction_from_string", r)>>,
                 PyResult("hb_direction_from_string", r), "none")

script_from_string(r) ==
    ReportedOnly("script_from_string", <<FCall("hb_script_from_string", r)>>,
                 PyResult("hb_script_from_string", r), "none")

tag_from_string(r) ==
    ReportedOnly("tag_from_string", <<FCall("hb_tag_from_string", r)>>,
                 PyResult("hb_tag_from_string", r), "none")

\* the inputs
BoolT == {0, 1}                                  \* what a routine with a boolean result returns
Decoded == {0, 4}                                \* the invalid value, and a valid one
Elements == {"codepoint", "other"}               \* an int >= 0, anything else
PySets == UNION {[1 .. n -> Elements] : n \in 0 .. MaxElts}
FontAutoscale == {"True", "False"}

NextApi ==
    \/ \E l \in ArgKinds("Language") : BufferSetLanguage(l)
    \/ \E f \in ArgKinds("UnicodeFuncs") : BufferSetUnicodeFuncs(f)
    \/ \E r \in BoolT : BufferPreAllocate(r)
    \/ \E ok \in BoolT : BufferAdd(ok)
    \/ \E ok \in BoolT : BufferAddCodepoints(ok)
    \/ \E r \in BoolT : BufferSetLength(r)
    \/ \E b \in ArgKinds("Blob"), k \in Handles, a \in Flags : FaceCreate(b, k, a)
    \/ \E f \in ArgKinds("Face"), fa \in FontAutoscale, k \in Handles : FontCreate(f, fa, k)
    \/ \E f \in ArgKinds("Face"), p \in ArgKinds("SegmentProperties"), k \in Handles :
           ShapePlanCreate(f, p, k)
    \/ \E f \in ArgKinds("FontFuncs") : FontSetFuncs(f)
    \/ \E f \in ArgKinds("Font") : FontSetParent(f)
    \/ \E f \in ArgKinds("Font"), fa \in FontAutoscale, b \in ArgKinds("Buffer") : shape(f, fa, b)
    \/ \E f \in ArgKinds("Font"), fa \in FontAutoscale, b \in ArgKinds("Buffer") : shape_full(f, fa, b)
    \/ \E f \in ArgKinds("Font"), fa \in FontAutoscale, b \in ArgKinds("Buffer") :
           ShapePlanExecute(f, fa, b)
    \/ \E k \in Handles, e \in PySets, n \in 0 .. MaxElts : SetToHb(k, e, n)
    \/ \E f \in ArgKinds("Font"), fa \in FontAutoscale, b \in ArgKinds("Buffer"),
          k \in Handles, e \in PySets, n \in 0 .. MaxElts :
           ot_shape_glyphs_closure(f, fa, b, k, e, n)
    \/ \E r \in Handles \cup {None} : LanguageFromString(r)
    \/ \E r \in BoolT : FeatureFromString(r)
    \/ \E r \in Decoded : SerializeFormatFromString(r)
    \/ \E r \in Decoded : direction_from_string(r)
    \/ \E r \in Decoded : script_from_string(r)
    \/ \E r \in Decoded : tag_from_string(r)

SpecApi == Init /\ [][NextApi]_vars

\* ---- the routines that write Buffer.autoscale
NextBuf ==
    \/ BufferReset
    \/ BufferClearContents
    \/ \E f \in ArgKinds("Font"), fa \in FontAutoscale, b \in ArgKinds("Buffer") : shape(f, fa, b)
    \/ \E f \in ArgKinds("Font"), fa \in FontAutoscale, b \in ArgKinds("Buffer") : shape_full(f, fa, b)
    \/ \E f \in ArgKinds("Font"), fa \in FontAutoscale, b \in ArgKinds("Buffer") :
           ShapePlanExecute(f, fa, b)
    \/ \E f \in ArgKinds("Font"), fa \in FontAutoscale, b \in ArgKinds("Buffer"),
          k \in Handles, e \in PySets, n \in 0 .. MaxElts :
           ot_shape_glyphs_closure(f, fa, b, k, e, n)

SpecBuf == Init /\ [][NextBuf]_vars

\* ---------------------------------------------------------------- the immutable property
\* the classes def_immutable is applied to
ImmutableClasses == {"UnicodeFuncs", "Blob", "Face", "Font", "FontFuncs"}

\* what the property is assigned: True, False, or a value that is no bool
Assigned == {"True", "False", "other"}

\* a setter that lets False through
NotImmutAccepted(immut) == FALSE

\* not immut (for a bool)
NotImmut(immut) == immut = "False"

\* set_immutable(self, immut)
SetImmutable(w, immut) ==
    /\ Live(w) /\ refs[w] > 0
    /\ wclass[w] \in ImmutableClasses
    /\ hbobj[w] \in Handles
    /\ op' = "immutable.setter"
    /\ args' = <<>>
    /\ result' = PyNone
    /\ IF immut \notin {"True", "False"}             \* not isinstance(immut, bool)
       THEN exc' = "TypeError" /\ fcalls' = <<>> /\ UNCHANGED immutable
       ELSE IF NotImmut(immut)
       THEN exc' = "ValueError" /\ fcalls' = <<>> /\ UNCHANGED immutable
       ELSE /\ exc' = "none"
            /\ fcalls' = <<FCall("make_immutable", 0)>>
            /\ immutable' = [immutable EXCEPT ![hbobj[w]] = TRUE]
    /\ UNCHANGED <<lifetimeVars, callbacks, slots, registered, retained>>

\* get_immutable(self): hb_<class>_is_immutable(self._hbobj) != 0
GetImmutable(w) ==
    /\ Live(w) /\ refs[w] > 0
    /\ wclass[w] \in ImmutableClasses
    /\ hbobj[w] \in Handles
    /\ op' = "immutable"
    /\ args' = <<>>
    /\ result' = [type |-> "bool", val |-> IF immutable[hbobj[w]] THEN 1 ELSE 0]
    /\ exc' = "none"
    /\ fcalls' = <<FCall("is_immutable", IF immutable[hbobj[w]] THEN 1 ELSE 0)>>
    /\ UNCHANGED <<lifetimeVars, callbacks, slots, immutable, registered, retained>>

NextImm ==
    \/ \E c \in Registered, k \in Keys : \E a \in AutoArgs(c) : Wrap(c, k, a)
    \/ \E w \in Wrappers : Drop(w)
    \/ \E w \in Wrappers, v \in Assigned : SetImmutable(w, v)
    \/ \E w \in Wrappers : GetImmutable(w)

SpecImm == Init /\ [][NextImm]_vars

\* ---------------------------------------------------------------- callbacks
\* The adapters def_callback_wrapper installs, by the form of their body:
\*   "unicode"        the eight UnicodeFuncs adapters: callback(_wderef(wself), ...)
\*   "message"        Buffer: message_func(_wderef(wself), Font(hb_font_reference(c_font), None), ...)
\*   "nominal_glyph"  FontFuncs: font = get_font(c_font); callback(font, ...); wself is not used
\*   "glyph_advance"  FontFuncs: font = get_font(c_font); callback(font, ...); _wderef(wself).autoscale
\*   "font_extents"   FontFuncs: as glyph_advance, but _wderef only if the callback returned metrics
Adapters(c) ==
    CASE c = "UnicodeFuncs" -> {"unicode"}
      [] c = "Buffer" -> {"message"}
      [] c = "FontFuncs" -> {"nominal_glyph", "glyph_advance", "font_extents"}
      [] OTHER -> {}

\* set_callback(self, callback_func, user_data, destroy): the adapter gets wref(self), is
\* stored in the callback slot of self and handed to the foreign object
SetCallback(w, adapter) ==
    /\ Live(w) /\ refs[w] > 0
    /\ hbobj[w] \in Handles
    /\ adapter \in Adapters(wclass[w])
    /\ callbacks' = [callbacks EXCEPT ![w] = adapter]
    /\ registered' = [registered EXCEPT ![hbobj[w]] = w]    \* getattr(hb, hb_proc)(self._hbobj, ...)
    /\ op' = "set_callback"
    /\ args' = <<>>
    /\ fcalls' = <<FCall("hb_proc", 0)>>
    /\ exc' = "none"
    /\ result' = PyNone
    /\ UNCHANGED <<lifetimeVars, slots, immutable, retained>>

\* _wderef(wself): self = wself(); assert self != None, "parent object has gone"
wderef(w) == IF Live(w) THEN "owner" ELSE "parent object has gone"

\* get_font(c_font), and the font argument of the message adapter: Font(hb_font_reference(c_font), None)
\* returns the live Font wrapper of c_font if there is one and fails the assertion of
\* Font.__new__ otherwise
get_font(font_wrapped) == IF font_wrapped THEN "font" ELSE "missing autoscale flag"

\* what running the adapter gives: whether the user callback was invoked, with what first
\* argument, and which assertion failed
Outcome(invoked, with, failed) == [invoked |-> invoked, with |-> with, failed |-> failed]

\* the body of the adapter installed by w; font_wrapped: c_font has a live Font wrapper;
\* returned: the user callback returned a value other than None
Adapter(w, font_wrapped, returned) ==
    CASE callbacks[w] = "unicode" ->
            IF wderef(w) = "owner" THEN Outcome(TRUE, "owner", "")
            ELSE Outcome(FALSE, "", wderef(w))
      [] callbacks[w] = "message" ->
            IF wderef(w) # "owner" THEN Outcome(FALSE, "", wderef(w))
            ELSE IF get_font(font_wrapped) # "font" THEN Outcome(FALSE, "", get_font(font_wrapped))
            ELSE Outcome(TRUE, "owner", "")
      [] callbacks[w] = "nominal_glyph" ->
            IF get_font(font_wrapped) # "font" THEN Outcome(FALSE, "", get_font(font_wrapped))
            ELSE Outcome(TRUE, "font", "")
      [] callbacks[w] = "glyph_advance" ->
            IF get_font(font_wrapped) # "font" THEN Outcome(FALSE, "", get_font(font_wrapped))
            ELSE Outcome(TRUE, "font", IF wderef(w) = "owner" THEN "" ELSE wderef(w))
      [] callbacks[w] = "font_extents" ->
            IF get_font(font_wrapped) # "font" THEN Outcome(FALSE, "", get_font(font_wrapped))
            ELSE Outcome(TRUE, "font", IF returned /\ wderef(w) # "owner" THEN wderef(w) ELSE "")

\* The foreign object calls the function pointer w handed to it.  The ctypes function
\* object is referenced by the callback slot of w alone, so once w is collected the pointer
\* dangles and the call is undefined: the process crashes, or the stale thunk still runs
\* the adapter.
FireCallback(w, font_wrapped, returned, thunk) ==
    /\ alive[w] # "unborn"
    /\ callbacks[w] # "none"
    /\ Live(w) => thunk = "valid"
    /\ op' = "callback"
    /\ args' = <<>>
    /\ fcalls' = <<>>
    /\ IF thunk = "crash"
       THEN exc' = "crash" /\ result' = Outcome(FALSE, "", "")
       ELSE /\ result' = Adapter(w, font_wrapped, returned)
            /\ exc' = IF Adapter(w, font_wrapped, returned).failed = "" THEN "none" ELSE "AssertionError"
    /\ UNCHANGED <<lifetimeVars, callbacks, slots, immutable, registered, retained>>

NextCB ==
    \/ \E c \in Registered, k \in Keys : \E a \in AutoArgs(c) : Wrap(c, k, a)
    \/ \E w \in Wrappers : Drop(w)
    \/ \E w \in Wrappers, ad \in {"unicode", "message", "nominal_glyph", "glyph_advance", "font_extents"} :
           SetCallback(w, ad)
    \/ \E w \in Wrappers, fw \in BOOLEAN, rt \in BOOLEAN, th \in {"valid", "crash"} :
           FireCallback(w, fw, rt, th)

SpecCB == Init /\ [][NextCB]_vars

\* ---------------------------------------------------------------- pointers the foreign objects hold
\* Blob.create(data, length, mode, user_data, destroy); k is what hb_blob_create returns, a
\* new object; wrap_destroy is handed to it and then stored in the _wrap_destroy slot of
\* the wrapper
BlobCreate(k, destroy) ==
    /\ ~Referenced("Blob", k, destroyed, retained)
    /\ Construct("Blob", k, "None")
    /\ callbacks' = [callbacks EXCEPT ![ret'] = IF destroy = "None" THEN "none" ELSE "destroy"]
    /\ registered' = [registered EXCEPT ![k] = IF destroy = "None" THEN None ELSE ret']
    /\ Reported("Blob.create", <<FCall("hb_blob_create", k)>>, [type |-> "Blob", val |-> ret'], "none")
    /\ UNCHANGED <<slots, immutable, retained>>

\* hb.hb_face_create(blob._hbobj, index) in Face.create(blob, index, autoscale) with the
\* Blob wrapper w: the face made refers to the foreign blob, and its wrapper keeps
\* blob._arr alone ("in case Blob goes away"); that wrapper is not followed
FaceCreateFromBlob(w) ==
    /\ Live(w) /\ refs[w] > 0
    /\ wclass[w] = "Blob"
    /\ hbobj[w] \in Handles
    /\ ~retained[hbobj[w]]
    /\ retained' = [retained EXCEPT ![hbobj[w]] = TRUE]
    /\ Reported("Face.create", <<FCall("hb_face_create", 0)>>, [type |-> "Face", val |-> 0], "none")
    /\ UNCHANGED <<lifetimeVars, callbacks, slots, immutable, registered>>

\* the face made from the foreign blob k is destroyed and gives up its reference to it
FaceDestroyed(k) ==
    /\ retained[k]
    /\ retained' = [retained EXCEPT ![k] = FALSE]
    /\ registered' = Forgotten("Blob", destroyed, retained')
    /\ Reported("Face.__del__", <<FCall("hb_face_destroy", 0)>>, PyNone, "none")
    /\ UNCHANGED <<lifetimeVars, callbacks, slots, immutable>>

NextReg ==
    \/ \E c \in Registered, k \in Keys : \E a \in AutoArgs(c) : Wrap(c, k, a)
    \/ \E w \in Wrappers : Drop(w)
    \/ \E w \in Wrappers, ad \in {"unicode", "message", "nominal_glyph", "glyph_advance", "font_extents"} :
           SetCallback(w, ad)
    \/ \E k \in Handles, d \in {"None", "destroy"} : BlobCreate(k, d)
    \/ \E w \in Wrappers : FaceCreateFromBlob(w)
    \/ \E k \in Handles : FaceDestroyed(k)

SpecReg == Init /\ [][NextReg]_vars

\* ---------------------------------------------------------------- array queries
MaxCount == 3        \* the largest count a foreign array query reports
MaxPasses == 3       \* passes of the query loop that are followed

\* (n * elt)(): a ctypes array of n elements, and ct.c_uint(n)
CArray(elt, n) == [type |-> "array", elt |-> elt, val |-> n]

\* one call of a foreign array query with start offset 0: the count and array arguments
\* and the number it returned
FCallArray(name, count, array, r) == [name |-> name, count |-> count, array |-> array, ret |-> r]

\* a loop that goes on while the array is empty
ArrayNotEmpty(array) == array # PyNone /\ array.val > 0

\* if point_array != None : break -- a ctypes array of any length differs from None
ArrayGiven(array) == array # PyNone

\* the while True loop from pass i on; rets[i] is what the foreign routine returns in pass i
RECURSIVE Passes(_, _, _, _, _, _)
Passes(routine, elt, count, array, rets, i) ==
    LET nr == rets[i]
        call == FCallArray(routine, count, array, nr)
    IN IF ArrayGiven(array)
       THEN [calls |-> <<call>>, nr |-> nr, array |-> array, done |-> TRUE]
       ELSE IF i = Len(rets)
       THEN [calls |-> <<call>>, nr |-> nr, array |-> array, done |-> FALSE]
       ELSE LET rest == Passes(routine, elt, PyInt(nr), CArray(elt, nr), rets, i + 1)
            IN [rest EXCEPT !.calls = <<call>> \o @]

\* the common form of the array queries: the loop, then
\* tuple(array[i] for i in range(nr)) with the count the last pass returned
ArrayQuery(name, routine, elt, rets) ==
    LET r == Passes(routine, elt, PyNone, PyNone, rets, 1)
    IN ReportedOnly(name, r.calls,
                    IF r.done /\ r.nr <= r.array.val THEN [type |-> "tuple", val |-> r.nr] ELSE PyNone,
                    IF ~r.done THEN "looping"
                    ELSE IF r.nr > r.array.val THEN "IndexError" ELSE "none")

ot_layout_get_attach_points(rets) ==
    ArrayQuery("Face.ot_layout_get_attach_points", "hb_ot_layout_get_attach_points", "c_uint", rets)

ot_layout_table_get_script_tags(rets) ==
    ArrayQuery("Face.ot_layout_table_get_script_tags", "hb_ot_layout_table_get_script_tags",
               "c_uint", rets)

ot_layout_table_get_feature_tags(rets) ==
    ArrayQuery("Face.ot_layout_table_get_feature_tags", "hb_ot_layout_table_get_feature_tags",
               "c_uint", rets)

ot_layout_script_get_language_tags(rets) ==
    ArrayQuery("Face.ot_layout_script_get_language_tags", "hb_ot_layout_script_get_language_tags",
               "c_uint", rets)

ot_layout_language_get_feature_indexes(rets) ==
    ArrayQuery("Face.ot_layout_language_get_feature_indexes",
               "hb_ot_layout_language_get_feature_indexes", "c_uint", rets)

ot_layout_language_get_feature_tags(rets) ==
    ArrayQuery("Face.ot_layout_language_get_feature_tags",
               "hb_ot_layout_language_get_feature_tags", "c_uint", rets)

ot_layout_feature_get_lookups(rets) ==
    ArrayQuery("Face.ot_layout_feature_get_lookups", "hb_ot_layout_feature_get_lookups",
               "c_uint", rets)

ot_layout_get_ligature_carets(rets) ==
    ArrayQuery("Font.ot_layout_get_ligature_carets", "hb_ot_layout_get_ligature_carets",
               "position_t", rets)

\* what the foreign routine returns, pass by pass
Counts == [1 .. MaxPasses -> 0 .. MaxCount]

NextQuery ==
    \/ \E rets \in Counts : ot_layout_get_attach_points(rets)
    \/ \E rets \in Counts : ot_layout_table_get_script_tags(rets)
    \/ \E rets \in Counts : ot_layout_table_get_feature_tags(rets)
    \/ \E rets \in Counts : ot_layout_script_get_language_tags(rets)
    \/ \E rets \in Counts : ot_layout_language_get_feature_indexes(rets)
    \/ \E rets \in Counts : ot_layout_language_get_feature_tags(rets)
    \/ \E rets \in Counts : ot_layout_feature_get_lookups(rets)
    \/ \E rets \in Counts : ot_layout_get_ligature_carets(rets)

SpecQuery == Init /\ [][NextQuery]_vars

\* ================================================================ properties
\* the live wrappers of class c constructed for handle k
LiveFor(c, k) == {w \in Wrappers : Live(w) /\ wclass[w] = c /\ regkey[w] = k}

\* this step is a constructor call of class c for k: the foreign layer handed out a reference
WrapStep(c, k) == incoming'[c][k] = incoming[c][k] + 1

\* the shutdown hook has not run
BeforeShutdown == del_classes = DelClasses

\* C1: for every registry-backed class there is at most one live wrapper per foreign
\* handle after every step, and a constructor call for a handle that has a live wrapper
\* constructs no wrapper and, when it returns, returns that very wrapper.
C1_OneWrapperPerHandle ==
    [][\A c \in Registered, k \in Handles :
          /\ Cardinality(LiveFor(c, k)') <= 1
          /\ (WrapStep(c, k) /\ LiveFor(c, k) # {}) =>
                /\ alive' = alive
                /\ ret' # None => ret' \in LiveFor(c, k)]_vars

\* a second call for a handle has returned the wrapper the first call constructed
C1_Witness ==
    \E w \in Wrappers :
        /\ ret = w /\ Live(w) /\ refs[w] = 2
        /\ wclass[w] \in Registered /\ regkey[w] \in Handles
        /\ incoming[wclass[w]][regkey[w]] = 2

\* C2: a constructor call for a handle that has a live wrapper issues exactly one destroy
\* call on that handle and returns the existing wrapper with its attributes unchanged; a
\* call for a handle without a live wrapper issues no destroy call and returns a new
\* wrapper that keeps the incoming reference.
C2_RedundantReferenceReleased ==
    [][\A c \in Registered, k \in Handles :
          WrapStep(c, k) =>
             IF LiveFor(c, k) # {}
             THEN /\ destroyed' = Destroy(c, k)
                  /\ ret' \in LiveFor(c, k)
                  /\ <<hbobj, autoscale, user_data>>' = <<hbobj, autoscale, user_data>>
             ELSE /\ destroyed' = destroyed
                  /\ ret' \in Unborn
                  /\ alive'[ret'] = "live" /\ hbobj'[ret'] = k]_vars

\* C3: before shutdown, the references handed to the constructor for a handle minus the
\* destroy calls issued on it is 1 while a wrapper for the handle is alive and 0 otherwise.
C3_NoReferenceLeaked ==
    \A c \in Registered, k \in Handles :
        BeforeShutdown =>
            incoming[c][k] - destroyed[c][k] = (IF LiveFor(c, k) # {} THEN 1 ELSE 0)

\* C4: before shutdown, the collection of a wrapper issues exactly one destroy call on its
\* handle and removes its registry entry, and a constructor call that finds no live wrapper
\* for a handle returns a wrapper that never existed before, not a collected one.
C4_CollectionReleasesOnce ==
    [][/\ \A w \in Wrappers :
             (Live(w) /\ alive'[w] = "dead" /\ BeforeShutdown /\ regkey[w] \in Handles) =>
                 /\ destroyed' = Destroy(wclass[w], regkey[w])
                 /\ wclass[w] \in Registered => instances'[wclass[w]][regkey[w]] = None
       /\ \A c \in Registered, k \in Handles :
             (WrapStep(c, k) /\ LiveFor(c, k) = {} /\ ret' # None) => ret' \in Unborn]_vars

\* a handle whose first wrapper was collected with one destroy call has been wrapped again
C4_Witness ==
    \E w \in Wrappers :
        /\ ret # None /\ ret # w /\ Live(ret)
        /\ alive[w] = "dead" /\ own_destroys[w] = 1
        /\ wclass[w] \in Registered /\ wclass[ret] = wclass[w]
        /\ regkey[w] \in Handles /\ regkey[ret] = regkey[w]
        /\ instances[wclass[w]][regkey[w]] = ret

\* C5: the finalizer of a wrapper issues at most one destroy call for the reference the
\* wrapper holds, also when it runs a second time on the same wrapper and when the handle
\* is wrapped again while the finalizer's destroy call is in progress.
C5_ReleasedAtMostOnce == \A w \in Wrappers : own_destroys[w] <= 1

\* the finalizer of a wrapper that was looked up during its destroy call has run again
C5_Witness == \E w \in Wrappers : del_runs[w] = 2 /\ own_destroys[w] = 1

\* a wrapper the application can see: just returned, referenced, or found by a lookup
Observable(w) ==
    \/ ret = w
    \/ alive[w] # "unborn" /\ refs[w] > 0
    \/ \E c \in Registered, k \in Keys : Lookup(c, k) = w

\* C6: every wrapper the application can see (returned by a constructor call, referenced,
\* or found by a registry lookup) is alive, its finalizer has released nothing, its slot
\* still stores the handle it was constructed for, and the wrap layer has not released the
\* reference it holds on that handle.
C6_NoReleasedWrapperObserved ==
    \A w \in Wrappers :
        Observable(w) =>
            /\ Live(w)
            /\ own_destroys[w] = 0
            /\ hbobj[w] = regkey[w]
            /\ regkey[w] \in Handles => destroyed[wclass[w]][regkey[w]] < incoming[wclass[w]][regkey[w]]

\* a wrapper is returned for a handle whose earlier wrapper has been released and collected
C6_Witness ==
    \E w \in Wrappers :
        /\ ret # None /\ ret # w /\ refs[ret] > 0
        /\ alive[w] = "dead" /\ own_destroys[w] = 1 /\ hbobj[w] = None
        /\ wclass[ret] = wclass[w] /\ regkey[w] \in Handles /\ regkey[ret] = regkey[w]
        /\ Lookup(wclass[w], regkey[w]) = ret

\* C7: a constructor call with a null handle constructs no wrapper and leaves the registry
\* without an entry for it.
C7_NullHandleRejected ==
    \A c \in Registered :
        /\ instances[c][None] = None
        /\ \A w \in Wrappers : (alive[w] # "unborn" /\ wclass[w] = c) => regkey[w] # None

\* C8: once the shutdown hook has run no class of its list has a finalizer left, and the
\* collection of a wrapper of any class issues no destroy call.
C8_ShutdownDisarmsRelease ==
    [][~BeforeShutdown' =>
          /\ del_classes' \cap {"UnicodeFuncs", "Blob", "Buffer", "Face", "Font", "FontFuncs",
                                "Set", "ShapePlan"} = {}
          /\ \A w \in Wrappers :
                (~BeforeShutdown /\ Live(w) /\ alive'[w] = "dead") =>
                    /\ destroyed' = destroyed
                    /\ own_destroys' = own_destroys
                    /\ hbobj'[w] = regkey[w]]_vars

\* a wrapper of a real handle has been collected after shutdown without a destroy call
C8_Witness ==
    \E w \in Wrappers :
        /\ ~BeforeShutdown
        /\ alive[w] = "dead" /\ regkey[w] \in Handles
        /\ own_destroys[w] = 0 /\ destroyed[wclass[w]][regkey[w]] = 0

\* C9: with several threads there are never two live wrappers of a class for one handle,
\* and no wrapper the application references has had its handle released.
C9_RegistrySerialized ==
    /\ \A c \in Registered, k \in Handles : Cardinality(LiveFor(c, k)) <= 1
    /\ \A w \in Wrappers :
          (Live(w) /\ refs[w] > 0 /\ ~Finalizing(w)) => (hbobj[w] = regkey[w] /\ own_destroys[w] = 0)

\* C10: every registry entry refers to a live wrapper the application still references,
\* and a wrapper without references is collected and its foreign reference released.
C10_RegistryHoldsNoWrapper ==
    /\ \A c \in Registered, k \in Keys :
          instances[c][k] # None => (Live(instances[c][k]) /\ refs[instances[c][k]] > 0)
    /\ \A w \in Wrappers :
          (alive[w] # "unborn" /\ refs[w] = 0) =>
              /\ alive[w] = "dead"
              /\ regkey[w] \in Handles => own_destroys[w] = 1

\* C10 as amended: every registry entry refers to a live wrapper the application still
\* references, a wrapper without references is collected, and its collection releases its
\* foreign reference exactly when the shutdown hook has not run before.
C10_RegistryHoldsNoWrapperAmended ==
    [][/\ \A c \in Registered, k \in Keys :
             instances'[c][k] # None => (alive'[instances'[c][k]] = "live" /\ refs'[instances'[c][k]] > 0)
       /\ \A w \in Wrappers :
             /\ (alive'[w] # "unborn" /\ refs'[w] = 0) => alive'[w] = "dead"
             /\ (Live(w) /\ alive'[w] = "dead" /\ regkey[w] \in Handles) =>
                    own_destroys'[w] = (IF BeforeShutdown THEN 1 ELSE 0)]_vars

\* the last reference to a registered wrapper has gone, it is collected and released, and
\* its registry entry is gone
C10_Witness ==
    \E w \in Wrappers :
        /\ alive[w] = "dead" /\ refs[w] = 0 /\ own_destroys[w] = 1
        /\ wclass[w] \in Registered /\ regkey[w] \in Handles
        /\ instances[wclass[w]][regkey[w]] = None

\* C15: whenever a constructor call constructs a wrapper, the dict in its _user_data slot
\* has no entries, and the slot of a wrapper refers to the same dict for as long as the
\* wrapper lives.
C15_UserDataInitiallyEmpty ==
    [][\A w \in Wrappers :
          /\ (alive[w] = "unborn" /\ alive'[w] = "live" /\ wclass'[w] \in Registered) =>
                 ud_items'[user_data'[w]] = 0
          /\ (Live(w) /\ alive'[w] = "live") => user_data'[w] = user_data[w]]_vars

\* C19: a constructor call of Face, Font or FontFuncs with an autoscale argument that is
\* not None and differs from the live wrapper's raises AssertionError, one with None
\* returns the live wrapper, one with None and no live wrapper raises AssertionError and
\* constructs nothing, and no step changes the autoscale slot of an existing wrapper.
C19_AutoscaleFixed ==
    [][/\ \A w \in Wrappers : alive[w] # "unborn" => autoscale'[w] = autoscale[w]
       /\ \A c \in HasAutoscale, k \in Keys, a \in Flags :
             Wrap(c, k, a) =>
                LET live == LiveFor(c, k)
                IN /\ (live # {} /\ a # "None" /\ \E w \in live : autoscale[w] # a) =>
                          (raised' = "AssertionError" /\ ret' = None /\ alive' = alive)
                   /\ (live # {} /\ a = "None") => (raised' = "none" /\ ret' \in live)
                   /\ (live = {} /\ a = "None") =>
                          (raised' = "AssertionError" /\ ret' = None /\ alive' = alive)]_vars

\* a call with the other flag has been refused while the wrapper constructed with the
\* first flag is alive and keeps it
C19_Witness ==
    \E w \in Wrappers :
        /\ Live(w) /\ wclass[w] \in HasAutoscale /\ autoscale[w] = "True"
        /\ incoming[wclass[w]][regkey[w]] = 2
        /\ raised = "AssertionError"

\* C20: a constructor call that fails an assertion leaves the registries as they were and
\* issues one destroy call on the handle it was given.
C20_FailedWrapReleases ==
    [][\A c \in Registered, k \in Handles :
          (WrapStep(c, k) /\ raised' = "AssertionError") =>
              /\ registryVars' = registryVars
              /\ destroyed' = Destroy(c, k)]_vars

\* C17: for every integer n of the signed 32-bit position range
\* to_position_t(from_position_t(n)) = n, and from_hb followed by to_hb with the same
\* autoscale flag, True or False, gives back the integer field values of the struct.
C17_PositionRoundTrip ==
    /\ op = "from_position_t" => to_position_t(result) = args
    /\ (op = "from_hb" /\ exc = "none") =>
           (to_hb(result, args.autoscale).exc = "none" /\ to_hb(result, args.autoscale).val = args.r)

\* a position that is no multiple of 64 has been converted with autoscale on
C17_Witness ==
    /\ op = "from_hb" /\ exc = "none" /\ args.autoscale = "True"
    /\ args.r.x_advance = PyNum(-2147483647)
    /\ result.x_advance.den = 64

\* C18: UNTAG(TAG(c1, c2, c3, c4)) = (c1, c2, c3, c4) for byte values, the tag is a number
\* of at most 32 bits with c1 as its most significant byte, TAG(*UNTAG(t)) = t for every
\* tag t of at most 32 bits, and TAG with a number of arguments other than 1 or 4 raises
\* TypeError.
C18_TagUntagInverse ==
    /\ op = "TAG" => (exc = "none" /\ UNTAG(result) = args /\ result = TagOf(args))
    /\ op = "UNTAG" => (TAG(result).exc = "none" /\ TAG(result).val = args)
    /\ op = "TAGArity" => exc = "TypeError"

\* the tag of four different byte values with the top bit set has been composed
C18_Witness ==
    /\ op = "TAG" /\ args = <<128, 1, 255, 127>>
    /\ Len(result) = 32

\* the routines C11 lists
TypeChecked == {"Buffer.language", "Buffer.unicode_funcs", "Face.create", "Font.create",
                "Font.set_funcs", "Font.parent", "shape", "shape_full", "ShapePlan.create",
                "ShapePlan.execute", "ot_shape_glyphs_closure", "Set.to_hb"}

\* C11: when one of the listed routines raises TypeError for an argument of the wrong type
\* (or a set element that is no codepoint), it has called no foreign routine and has left
\* every attribute, registry and reference count as it was.
C11_TypeErrorBeforeForeignCall ==
    [][(op' \in TypeChecked /\ exc' = "TypeError") =>
           (fcalls' = <<>> /\ slots' = slots /\ lifetimeVars' = lifetimeVars)]_vars

\* the foreign routine f reported r in the call just made
ForeignReported(f, r) == \E i \in 1 .. Len(fcalls) : fcalls[i] = FCall(f, r)

\* C12: Buffer.add and Buffer.add_codepoints raise RuntimeError exactly when the
\* allocation query after the add returns 0, Buffer.pre_allocate and the Buffer.length
\* setter exactly when their foreign call returns 0, and Set.to_hb exactly when the
\* allocation query after an insertion returns 0.
C12_AllocationFailureSurfaced ==
    /\ op \in {"Buffer.add", "Buffer.add_codepoints"} =>
           (exc = "RuntimeError" <=> ForeignReported("hb_buffer_allocation_successful", 0))
    /\ op = "Buffer.pre_allocate" =>
           (exc = "RuntimeError" <=> ForeignReported("hb_buffer_pre_allocate", 0))
    /\ op = "Buffer.length" =>
           (exc = "RuntimeError" <=> ForeignReported("hb_buffer_set_length", 0))
    /\ op = "Set.to_hb" =>
           (exc = "RuntimeError" <=> ForeignReported("hb_set_allocation_successful", 0))

\* C13: when the foreign conversion reports failure (a NULL language, a false result, the
\* invalid direction, script, tag or format), Language.from_string and Feature.from_string
\* raise ValueError and SerializeFormat.from_string, direction_from_string,
\* script_from_string and tag_from_string raise as well.
C13_DecodeFailureRaises ==
    /\ (op = "Language.from_string" /\ ForeignReported("hb_language_from_string", None)) =>
           exc = "ValueError"
    /\ (op = "Feature.from_string" /\ ForeignReported("hb_feature_from_string", 0)) =>
           exc = "ValueError"
    /\ (op = "SerializeFormat.from_string"
           /\ ForeignReported("hb_buffer_serialize_format_from_string", BUFFER_SERIALIZE_FORMAT_INVALID)) =>
           exc # "none"
    /\ (op = "direction_from_string" /\ ForeignReported("hb_direction_from_string", DIRECTION_INVALID)) =>
           exc # "none"
    /\ (op = "script_from_string" /\ ForeignReported("hb_script_from_string", SCRIPT_INVALID)) =>
           exc # "none"
    /\ (op = "tag_from_string" /\ ForeignReported("hb_tag_from_string", TAG_NONE)) =>
           exc # "none"

\* C16: assigning a value that is no bool to immutable raises TypeError and assigning
\* False raises ValueError, both without a foreign call; assigning True calls the foreign
\* make-immutable routine; and once the foreign object of a live wrapper reports immutable
\* no step makes that wrapper read False again.
C16_ImmutableOnlySet ==
    [][/\ \A w \in Wrappers, v \in Assigned :
             SetImmutable(w, v) =>
                 /\ v = "other" => (exc' = "TypeError" /\ fcalls' = <<>> /\ immutable' = immutable)
                 /\ v = "False" => (exc' = "ValueError" /\ fcalls' = <<>> /\ immutable' = immutable)
                 /\ v = "True" => (exc' = "none" /\ fcalls' = <<FCall("make_immutable", 0)>>
                                   /\ immutable'[hbobj[w]])
       /\ \A w \in Wrappers :
             (Live(w) /\ alive'[w] = "live" /\ hbobj[w] \in Handles /\ immutable[hbobj[w]]) =>
                 (hbobj'[w] = hbobj[w] /\ immutable'[hbobj'[w]])]_vars

\* a wrapper that reads immutable has just refused to have the setting cleared
C16_Witness ==
    \E w \in Wrappers :
        /\ Live(w) /\ hbobj[w] \in Handles /\ immutable[hbobj[w]]
        /\ op = "immutable.setter" /\ exc = "ValueError"

\* C14: when a callback of a UnicodeFuncs, FontFuncs or Buffer wrapper fires after the
\* wrapper has been collected, the adapter fails the assertion "parent object has gone"
\* and the user callback is not invoked; while the wrapper is alive the user callback is
\* invoked with the wrapper.
C14_CallbackNeedsLiveOwner ==
    [][\A w \in Wrappers, fw \in BOOLEAN, rt \in BOOLEAN, th \in {"valid", "crash"} :
          FireCallback(w, fw, rt, th) =>
              IF Live(w)
              THEN exc' = "none" /\ result'.invoked /\ result'.with = "owner"
              ELSE /\ exc' = "AssertionError" /\ result'.failed = "parent object has gone"
                   /\ ~result'.invoked]_vars

\* the routines that shape a buffer with a font
Shapers == {"shape", "shape_full", "ShapePlan.execute", "ot_shape_glyphs_closure"}

\* C21: the autoscale of a Buffer wrapper is False when the wrapper is made, becomes the
\* autoscale of the Font argument at every shape, shape_full, ShapePlan.execute and
\* ot_shape_glyphs_closure call that completes, becomes False again at reset and
\* clear_contents, and is left as it was by a call that raises; so it always equals the
\* autoscale of the font of the last completed shaping call since creation or the last
\* reset, and False if there was none.
C21_BufferAutoscaleFollowsFont ==
    /\ slots.buf_autoscale = "False"
    /\ [][/\ (op' \in Shapers /\ exc' = "none") => slots'.buf_autoscale = args'[1]
          /\ (op' \in Shapers /\ exc' # "none") => slots'.buf_autoscale = slots.buf_autoscale
          /\ op' \in {"Buffer.reset", "Buffer.clear_contents"} => slots'.buf_autoscale = "False"
          /\ op' \notin Shapers \cup {"Buffer.reset", "Buffer.clear_contents"} =>
                 slots'.buf_autoscale = slots.buf_autoscale]_vars

\* a buffer shaped with an autoscaling font, and a call rejected with TypeError after it
\* that kept the flag
C21_Witness ==
    op = "shape_full" /\ exc = "TypeError" /\ slots.buf_autoscale = "True"

\* C22: every function pointer a foreign object holds belongs to a closure that the
\* callback slot of a live wrapper still refers to.
C22_RegisteredPointersHeld ==
    \A k \in Handles :
        registered[k] # None => (Live(registered[k]) /\ callbacks[registered[k]] # "none")

\* C23: a constructor call of Language or SerializeFormat for a handle or tag that has a
\* live wrapper constructs nothing and returns that wrapper, and no constructor call and
\* no collection of these classes makes a foreign destroy call.
C23_InternedNeverFreed ==
    [][\A c \in Interned, k \in Keys :
          /\ Cardinality(LiveFor(c, k)') <= 1
          /\ (WrapStep(c, k) /\ LiveFor(c, k) # {}) =>
                 (alive' = alive /\ ret' \in LiveFor(c, k))
          /\ destroyed'[c][k] = 0
          /\ own_destroys' = own_destroys
          /\ del_runs' = del_runs]_vars

\* a wrapper of one of the two classes that a second constructor call returned again and
\* that has since been collected
C23_Witness ==
    \E w \in Wrappers :
        /\ wclass[w] \in Interned
        /\ alive[w] = "dead"
        /\ incoming[wclass[w]][regkey[w]] = 2
        /\ destroyed[wclass[w]][regkey[w]] = 0

\* C24: to_hb of a struct class with position-scaled fields raises TypeError exactly when
\* autoscale is None and a position-scaled attribute of the instance is set, and from_hb
\* exactly when autoscale is None; with autoscale True to_hb gives round(64 x) and from_hb
\* n / 64, with autoscale False to_hb gives round(x) and from_hb the integer n itself; an
\* attribute that is not set leaves the field 0 and the other fields are copied.
C24_StructAutoscale ==
    /\ op = "to_hb" =>
          /\ exc \in {"none", "TypeError"}
          /\ exc = "TypeError" <=>
                 (args.autoscale = "None" /\ \E f \in Scaled : args.r[f] # PyNone)
          /\ exc = "none" =>
                 /\ result.var = args.r.var
                 /\ \A f \in Scaled :
                        /\ args.r[f] = PyNone => result[f] = PyNum(0)
                        /\ (args.r[f] # PyNone /\ args.autoscale = "True") =>
                               result[f] = PyRound(PyMul(args.r[f], 64))
                        /\ (args.r[f] # PyNone /\ args.autoscale = "False") =>
                               result[f] = PyRound(args.r[f])
    /\ op = "from_hb" =>
          /\ exc \in {"none", "TypeError"}
          /\ exc = "TypeError" <=> args.autoscale = "None"
          /\ exc = "none" =>
                 /\ result.var = args.r.var
                 /\ \A f \in Scaled :
                        /\ args.autoscale = "True" => PyMul(result[f], 64) = args.r[f]
                        /\ args.autoscale = "False" => result[f] = args.r[f]

\* to_hb without an autoscale argument has raised for an instance whose second scaled
\* attribute alone is set
C24_Witness ==
    /\ op = "to_hb" /\ exc = "TypeError"
    /\ args.autoscale = "None"
    /\ args.r.x_advance = PyNone /\ args.r.y_advance = [num |-> 5, den |-> 2]

\* the array queries
Queries == {"Face.ot_layout_get_attach_points", "Face.ot_layout_table_get_script_tags",
            "Face.ot_layout_table_get_feature_tags", "Face.ot_layout_script_get_language_tags",
            "Face.ot_layout_language_get_feature_indexes",
            "Face.ot_layout_language_get_feature_tags", "Face.ot_layout_feature_get_lookups",
            "Font.ot_layout_get_ligature_carets"}

\* C25: every array query returns after exactly two foreign calls, the first with no
\* count and no array, the second with the count the first call returned and an array of
\* that many elements, whatever that count is, 0 included.
C25_TwoPassQuery ==
    op \in Queries =>
        /\ exc # "looping"
        /\ Len(fcalls) = 2
        /\ fcalls[1].count = PyNone /\ fcalls[1].array = PyNone
        /\ fcalls[2].count = PyInt(fcalls[1].ret)
        /\ fcalls[2].array # PyNone
        /\ fcalls[2].array.val = fcalls[1].ret
        /\ fcalls[2].name = fcalls[1].name

\* a query whose first call reported no elements has returned the empty tuple
C25_Witness ==
    /\ op \in Queries /\ exc = "none"
    /\ Len(fcalls) = 2 /\ fcalls[1].ret = 0
    /\ result = [type |-> "tuple", val |-> 0]

====
